---- MODULE Spec2Model ----
(***************************************************************************)
(* Needleman-Wunsch edit distance between two genetic sequences: the four  *)
(* engines of Needleman-Wunsch-recmemo.c (memoized recursion, linear-space *)
(* iteration, cache-aware tiles, cache-oblivious recursion).               *)
(*                                                                         *)
(* C arrays are 0-based: a sequence s of the model holds s[i] of the code  *)
(* at position i + 1; working buffers are functions over 0..length.        *)
(***************************************************************************)
EXTENDS Integers, Sequences, FiniteSets, TLC

VARIABLES A, B, pc, res, ctx, param, stored, diags, hook, table, trace, heap,
          rapl, perf, cmd

engineVars == <<A, B, pc, res, ctx, param, stored, diags, hook, table, trace>>

vars == <<A, B, pc, res, ctx, param, stored, diags, hook, table, trace, heap,
          rapl, perf, cmd>>

(***************************************************************************)
(* Bounds of the model.                                                    *)
(***************************************************************************)
MaxLen == 2
MaxTileEdge == 3
MaxBreakpoint == 2
MaxTraceLen == 1

(***************************************************************************)
(* Program constants.                                                      *)
(***************************************************************************)
NOT_YET_COMPUTED == -1
Z == 100
CO_BREAKPOINT == 10

\* Needleman-Wunsch-recmemo.h: the cost model (representative configuration).
SUBSTITUTION_COST == 1
SUBSTITUTION_UNKNOWN_COST == 2
INSERTION_COST == 2

(***************************************************************************)
(* characters_to_base.h: the symbol classifier.  "A" and "C" are concrete  *)
(* bases, "N" is the unknown base, "-" is a symbol that is not a base.     *)
(***************************************************************************)
Alphabet == {"A", "C", "N", "-"}

isBase(c) == c \in {"A", "C", "N"}

isUnknownBase(c) == c = "N"

isSameBase(c1, c2) == c1 = c2

\* Values an uninitialized long may hold.
Junk == {-50, 77}

TileEdges == (1..MaxTileEdge) \cup {Z}

Breakpoints == (0..MaxBreakpoint) \cup {CO_BREAKPOINT}

\* The sequences an engine is called on: every sequence of at most MaxLen
\* symbols, and some longer ones.
Samples ==
  { <<"A", "C", "N">>,
    <<"-", "N", "C">>,
    <<"A", "A", "A", "A">>,
    <<"A", "-", "C", "A">>,
    <<"C", "A", "N", "-", "A">>,
    <<"N", "C", "A", "C", "C">> }

Inputs == UNION {[1..n -> Alphabet] : n \in 0..MaxLen} \cup Samples

\* The sequences of the calls that are followed cell by cell.
TraceInputs == UNION {[1..n -> Alphabet] : n \in 0..MaxTraceLen} \cup Samples

Lengths == {Len(s) : s \in Inputs}

MaxLength == CHOOSE n \in Lengths : \A m \in Lengths : m <= n

(***************************************************************************)
(* Reads of a sequence.  ReadAt is a read the code makes without checking  *)
(* the index first: at index Len(s) it yields whatever byte follows.       *)
(***************************************************************************)
Char(s, i) == s[i + 1]

ReadAt(s, i, pad) == IF i < Len(s) THEN s[i + 1] ELSE pad

\* Variant of Orient that always takes the first argument as X.
Orient_NoSwap(a, lengthA, b, lengthB) ==
  [X |-> a, M |-> lengthA, Y |-> b, N |-> lengthB]

\* Orientation step shared by the four engines: X is the sequence that is
\* not shorter.
Orient(a, lengthA, b, lengthB) ==
  IF lengthA >= lengthB
  THEN [X |-> a, M |-> lengthA, Y |-> b, N |-> lengthB]
  ELSE [X |-> b, M |-> lengthB, Y |-> a, N |-> lengthA]

\* Variant of BoundaryCost that charges a symbol that is not a base.
BoundaryCost_Always(sym) == INSERTION_COST

\* Cost of leaving one symbol unmatched: (isBase(sym) ? INSERTION_COST : 0).
BoundaryCost(sym) == IF isBase(sym) THEN INSERTION_COST ELSE 0

\* Cost of the diagonal option as every engine writes it.
DiagCost(Xi, Yj) ==
  IF isUnknownBase(Xi)
  THEN SUBSTITUTION_UNKNOWN_COST
  ELSE IF isSameBase(Xi, Yj) THEN 0 ELSE SUBSTITUTION_COST

\* Variant of min with the comparisons turned around.
min_Flipped(a, b, c) ==
  IF a >= b /\ a >= c THEN a
  ELSE IF b >= a /\ b >= c THEN b
  ELSE c

min(a, b, c) ==
  IF a <= b /\ a <= c THEN a
  ELSE IF b <= a /\ b <= c THEN b
  ELSE c

(***************************************************************************)
(* What an engine call does, in the order it does it.  s.trace.visits is   *)
(* the sequence of cells (col, row) the loops process; s.trace.acc the     *)
(* elements read or written, <<"X", i>> and <<"Y", j>> for the sequences,  *)
(* <<"Y_col", i>> and <<"Z_row", i>> for the buffers; the other fields     *)
(* hold the values the buffers and locals have at given program points.    *)
(* A call is followed this way when the harness asks for it (trace.on).    *)
(***************************************************************************)
NoTrace ==
  [on |-> FALSE, visits |-> <<>>, acc |-> {}, diagObs |-> {}, skipObs |-> {}, colObs |-> <<>>,
   tiles |-> <<>>, calls |-> <<>>, blocks |-> <<>>]

StartTrace == [NoTrace EXCEPT !.on = trace.on]

\* The loop body is entered for cell (col, row) and touches the elements S.
Touch(s, col, row, S) ==
  IF s.trace.on
  THEN [s EXCEPT !.trace.visits = Append(@, <<col, row>>), !.trace.acc = @ \cup S]
  ELSE s

\* Elements touched outside the loop body.
Access(s, S) == IF s.trace.on THEN [s EXCEPT !.trace.acc = @ \cup S] ELSE s

\* The values a cell is computed from, as they are read.
Formed(s, col, row, diag, right, top) ==
  IF s.trace.on
  THEN [s EXCEPT !.trace.diagObs = @ \cup
          {[col |-> col, row |-> row, prev_value |-> diag, right |-> right, top |-> top]}]
  ELSE s

Copied(s, col, row, top) ==
  IF s.trace.on
  THEN [s EXCEPT !.trace.skipObs = @ \cup {[col |-> col, row |-> row, top |-> top]}]
  ELSE s

\* The elements of a buffer as they stand now.
Snapshot(buf) == [i \in DOMAIN buf |-> buf[i]]

\* Y_col as it stands when the sweep is at column col.
AtColumn(s, col) ==
  IF s.trace.on
  THEN [s EXCEPT !.trace.colObs = Append(@, [col |-> col, Y_col |-> Snapshot(s.Y_col)])]
  ELSE s

(***************************************************************************)
(* The anomaly hook.  Every engine state s records in s.nonbase the cells  *)
(* (i, j) where isBase answered no for a symbol, and in s.reported the     *)
(* cells where that symbol went to ManageBaseError.                        *)
(***************************************************************************)
\* A test isBase(sym) made while cell (i, j) is evaluated.
Classify(s, i, j, sym) ==
  IF isBase(sym) THEN s ELSE [s EXCEPT !.nonbase = @ \cup {<<i, j, sym>>}]

\* characters_to_base.h: ManageBaseError(sym) reports the symbol and returns.
ManageBaseError(s, i, j, sym) ==
  [s EXCEPT !.reported = @ \cup {<<i, j, sym>>}]

(***************************************************************************)
(* Top-down memoized engine.  The state threaded through the recursion is  *)
(* the memo table, the values written to it, the number of writes to each  *)
(* cell and the diagonal costs formed.                                     *)
(***************************************************************************)
\* Variant of RecMin whose comparisons are turned around.
RecMin_Flipped(cas1, cas2, cas3) ==
  LET min1 == IF cas2 > cas1 THEN cas2 ELSE cas1
  IN IF cas3 > min1 THEN cas3 ELSE min1

\* Variant of RecMin that never takes the horizontal option.
RecMin_NoCas3(cas1, cas2, cas3) ==
  IF cas2 < cas1 THEN cas2 ELSE cas1

\* min starts as cas 1 and is lowered to cas2, then to cas3, when smaller.
RecMin(cas1, cas2, cas3) ==
  LET min1 == IF cas2 < cas1 THEN cas2 ELSE cas1
  IN IF cas3 < min1 THEN cas3 ELSE min1

RecSet(s, i, j, v) ==
  [s EXCEPT !.memo[i][j] = v, !.stored = @ \cup {v}, !.writes[i][j] = @ + 1]

\* Variant of Computed that takes a stored 0 for the sentinel.
Computed_Positive(s, i, j) == s.memo[i][j] > 0

\* The test that guards the body: c->memo[i][j] != NOT_YET_COMPUTED.
Computed(s, i, j) == s.memo[i][j] # NOT_YET_COMPUTED

RECURSIVE EditDistance_NW_RecMemo(_, _, _, _)
EditDistance_NW_RecMemo(c, s, i, j) ==
  IF Computed(s, i, j)
  THEN s
  ELSE
    LET Xi == ReadAt(c.X, i, c.pad)
        Yj == ReadAt(c.Y, j, c.pad)
        sr == Access(s, {<<"X", i>>, <<"Y", j>>})
    IN
    IF i = c.M
    THEN IF j = c.N
         THEN RecSet(sr, i, j, 0)
         ELSE LET s1 == EditDistance_NW_RecMemo(c, Classify(sr, i, j, Yj), i, j + 1)
              IN RecSet(s1, i, j,
                        BoundaryCost(Yj) + s1.memo[i][j + 1])
    ELSE IF j = c.N
    THEN LET s1 == EditDistance_NW_RecMemo(c, Classify(sr, i, j, Xi), i + 1, j)
         IN RecSet(s1, i, j,
                   BoundaryCost(Xi) + s1.memo[i + 1][j])
    ELSE IF ~isBase(Xi)
    THEN LET s1 == EditDistance_NW_RecMemo(
                     c, ManageBaseError(Classify(sr, i, j, Xi), i, j, Xi), i + 1, j)
         IN RecSet(s1, i, j, s1.memo[i + 1][j])
    ELSE IF ~isBase(Yj)
    THEN LET s1 == EditDistance_NW_RecMemo(
                     c, ManageBaseError(Classify(sr, i, j, Yj), i, j, Yj), i, j + 1)
         IN RecSet(s1, i, j, s1.memo[i][j + 1])
    ELSE
      LET s1 == EditDistance_NW_RecMemo(c, sr, i + 1, j + 1)
          cas1 == DiagCost(Xi, Yj) + s1.memo[i + 1][j + 1]
          s2 == EditDistance_NW_RecMemo(c, s1, i + 1, j)
          cas2 == INSERTION_COST + s2.memo[i + 1][j]
          s3 == EditDistance_NW_RecMemo(c, s2, i, j + 1)
          cas3 == INSERTION_COST + s3.memo[i][j + 1]
      IN [RecSet(s3, i, j, RecMin(cas1, cas2, cas3)) EXCEPT
            !.diags = @ \cup {<<Xi, Yj, DiagCost(Xi, Yj)>>}]

EditDistance_NW_Rec(a, lengthA, b, lengthB, pad) ==
  LET o == Orient(a, lengthA, b, lengthB)
      c == [X |-> o.X, M |-> o.M, Y |-> o.Y, N |-> o.N, pad |-> pad]
      s0 == [memo |-> [i \in 0..c.M |-> [j \in 0..c.N |-> NOT_YET_COMPUTED]],
             writes |-> [i \in 0..c.M |-> [j \in 0..c.N |-> 0]],
             stored |-> {}, diags |-> {}, nonbase |-> {}, reported |-> {},
             trace |-> StartTrace]
      s == EditDistance_NW_RecMemo(c, s0, 0, 0)
  IN [res |-> s.memo[0][0], ctx |-> o, stored |-> s.stored,
      diags |-> s.diags, memo |-> s.memo, writes |-> s.writes,
      nonbase |-> s.nonbase, reported |-> s.reported, trace |-> s.trace]

(***************************************************************************)
(* Linear-space iterative engine.                                          *)
(***************************************************************************)
\* Statement order: F is applied to the state that the statements before it
\* left, once that state is complete (s is evaluated once, then bound).
Then(s, F(_)) == CHOOSE r \in {F(st) : st \in {s}} : TRUE

PutY(s, row, v) ==
  [s EXCEPT !.Y_col[row] = v, !.stored = @ \cup {v}]

\* Y_col[N] = 0, then Y_col[row] for row = N-1 .. 0 (the same loop opens the
\* three iterative engines).
RECURSIVE InitY_col(_, _, _)
InitY_col(c, s, row) ==
  IF row < 0 THEN s
  ELSE Then(PutY(Classify(Access(s, {<<"Y", row>>, <<"Y_col", row>>,
                                       <<"Y_col", row + 1>>}),
                          c.M, row, Char(c.Y, row)), row,
                 BoundaryCost(Char(c.Y, row)) + s.Y_col[row + 1]),
            LAMBDA st : InitY_col(c, st, row - 1))

\* Variant of IterCell that saves Y_col[row] in prev_value after the cell is
\* stored, where the three options are compared.
IterCell_LatePrev(c, s, col, row) ==
  IF row = c.N
  THEN PutY([Classify(Touch(s, col, row, {<<"X", col>>, <<"Y_col", row>>}),
                      col, row, Char(c.X, col))
               EXCEPT !.prev_value = s.Y_col[row]],
            row, BoundaryCost(Char(c.X, col)) + s.Y_col[row])
  ELSE IF ~isBase(Char(c.X, col))
  THEN ManageBaseError(
         [Classify(Touch(s, col, row, {<<"X", col>>, <<"Y_col", row>>}),
                   col, row, Char(c.X, col))
            EXCEPT !.prev_value = s.Y_col[row]],
         col, row, Char(c.X, col))
  ELSE IF ~isBase(Char(c.Y, row))
  THEN ManageBaseError(
         PutY([Classify(Touch(s, col, row, {<<"X", col>>, <<"Y", row>>,
                                            <<"Y_col", row>>, <<"Y_col", row + 1>>}),
                        col, row, Char(c.Y, row))
                 EXCEPT !.prev_value = s.Y_col[row]],
              row, s.Y_col[row + 1]),
         col, row, Char(c.Y, row))
  ELSE
    LET dc == DiagCost(Char(c.X, col), Char(c.Y, row))
        diag == dc + s.prev_value
        top == INSERTION_COST + s.Y_col[row + 1]
        right == INSERTION_COST + s.Y_col[row]
        sd == Formed(Touch(s, col, row, {<<"X", col>>, <<"Y", row>>,
                                         <<"Y_col", row>>, <<"Y_col", row + 1>>}),
                     col, row, s.prev_value, s.Y_col[row], s.Y_col[row + 1])
    IN PutY([sd EXCEPT !.prev_value = min(diag, right, top),
                       !.diags = @ \cup {<<Char(c.X, col), Char(c.Y, row), dc>>}],
            row, min(diag, right, top))

\* One pass of the body of the inner loop.
IterCell(c, s, col, row) ==
  IF row = c.N
  THEN PutY([Classify(Touch(s, col, row, {<<"X", col>>, <<"Y_col", row>>}),
                      col, row, Char(c.X, col))
               EXCEPT !.prev_value = s.Y_col[row]],
            row, BoundaryCost(Char(c.X, col)) + s.Y_col[row])
  ELSE IF ~isBase(Char(c.X, col))
  THEN ManageBaseError(
         [Classify(Touch(s, col, row, {<<"X", col>>, <<"Y_col", row>>}),
                   col, row, Char(c.X, col))
            EXCEPT !.prev_value = s.Y_col[row]],
         col, row, Char(c.X, col))
  ELSE IF ~isBase(Char(c.Y, row))
  THEN ManageBaseError(
         PutY([Classify(Touch(s, col, row, {<<"X", col>>, <<"Y", row>>,
                                            <<"Y_col", row>>, <<"Y_col", row + 1>>}),
                        col, row, Char(c.Y, row))
                 EXCEPT !.prev_value = s.Y_col[row]],
              row, s.Y_col[row + 1]),
         col, row, Char(c.Y, row))
  ELSE
    LET dc == DiagCost(Char(c.X, col), Char(c.Y, row))
        diag == dc + s.prev_value
        top == INSERTION_COST + s.Y_col[row + 1]
        right == INSERTION_COST + s.Y_col[row]
        sd == Formed(Touch(s, col, row, {<<"X", col>>, <<"Y", row>>,
                                         <<"Y_col", row>>, <<"Y_col", row + 1>>}),
                     col, row, s.prev_value, s.Y_col[row], s.Y_col[row + 1])
    IN PutY([sd EXCEPT !.prev_value = s.Y_col[row],
                       !.diags = @ \cup {<<Char(c.X, col), Char(c.Y, row), dc>>}],
            row, min(diag, right, top))

RECURSIVE IterRows(_, _, _, _)
IterRows(c, s, col, row) ==
  IF row < 0 THEN s
  ELSE Then(IterCell(c, s, col, row),
            LAMBDA st : IterRows(c, st, col, row - 1))

RECURSIVE IterCols(_, _, _)
IterCols(c, s, col) ==
  IF col < 0 THEN s
  ELSE Then(AtColumn(IterRows(c, s, col, c.N), col),
            LAMBDA st : IterCols(c, st, col - 1))

\* Variant of EditDistance_NW_Iter that leaves Y_col[N] as malloc returned it.
EditDistance_NW_Iter_NoBaseCase(a, lengthA, b, lengthB, junk) ==
  LET c == Orient(a, lengthA, b, lengthB)
      s0 == [Y_col |-> [row \in 0..c.N |-> junk],
             prev_value |-> junk, stored |-> {}, diags |-> {},
             nonbase |-> {}, reported |-> {}, trace |-> StartTrace]
      s1 == AtColumn(InitY_col(c, s0, c.N - 1), c.M)
      s == Access(IterCols(c, s1, c.M - 1), {<<"Y_col", 0>>})
  IN [res |-> s.Y_col[0], ctx |-> c, stored |-> s.stored, diags |-> s.diags,
      nonbase |-> s.nonbase, reported |-> s.reported, trace |-> s.trace]

EditDistance_NW_Iter(a, lengthA, b, lengthB, junk) ==
  LET c == Orient(a, lengthA, b, lengthB)
      s0 == [Y_col |-> [row \in 0..c.N |-> IF row = c.N THEN 0 ELSE junk],
             prev_value |-> junk, stored |-> {0}, diags |-> {},
             nonbase |-> {}, reported |-> {}, trace |-> StartTrace]
      s1 == AtColumn(InitY_col(c, Access(s0, {<<"Y_col", c.N>>}), c.N - 1), c.M)
      s == Access(IterCols(c, s1, c.M - 1), {<<"Y_col", 0>>})
  IN [res |-> s.Y_col[0], ctx |-> c, stored |-> s.stored, diags |-> s.diags,
      nonbase |-> s.nonbase, reported |-> s.reported, trace |-> s.trace]

(***************************************************************************)
(* Cache-aware blocked engine, with the tile edge (Z in the code) taken as *)
(* the parameter tile.  g holds the tile geometry, k the position of the   *)
(* three outer loops.                                                      *)
(***************************************************************************)
PutZ(s, idx, v) ==
  [s EXCEPT !.Z_row[idx] = v, !.stored = @ \cup {v}]

\* The row and the column the counters of the two inner loops stand for.
CA_row(c, g, z_row, counter_row) ==
  IF z_row > 0
  THEN counter_row + (z_row - 1) * g.Z + c.N - (g.number_of_Z_rows - 1) * g.Z
  ELSE counter_row

\* Variant of CA_col that leaves out the width of the partial column band.
CA_col_NoRemainder(c, g, z_col, counter_col) ==
  IF z_col > 0
  THEN counter_col + (z_col - 1) * g.Z
  ELSE counter_col

CA_col(c, g, z_col, counter_col) ==
  IF z_col > 0
  THEN counter_col + (z_col - 1) * g.Z + c.M - (g.number_of_Z_cols - 1) * g.Z
  ELSE counter_col

CA_Cell(c, g, k, s, counter_row) ==
  LET row == CA_row(c, g, k.z_row, counter_row)
      col == k.col
      idx == k.counter_col + g.Z_row_length - k.max_cols
      s1 ==
        IF row = c.N
        THEN PutY([Classify(Touch(s, col, row, {<<"X", col>>, <<"Y_col", row>>}),
                            col, row, Char(c.X, col))
                     EXCEPT !.prev_value = s.Y_col[row]],
                  row, BoundaryCost(Char(c.X, col)) + s.Y_col[row])
        ELSE IF ~isBase(Char(c.X, col))
        THEN ManageBaseError(
               [Classify(Touch(s, col, row, {<<"X", col>>, <<"Y_col", row>>}),
                         col, row, Char(c.X, col))
                  EXCEPT !.prev_value = s.Y_col[row]],
               col, row, Char(c.X, col))
        ELSE IF ~isBase(Char(c.Y, row))
        THEN ManageBaseError(
               IF counter_row = k.max_rows
               THEN PutY([Classify(Copied(Touch(s, col, row,
                                                {<<"X", col>>, <<"Y", row>>,
                                                 <<"Y_col", row>>, <<"Z_row", idx>>}),
                                          col, row, s.Z_row[idx]),
                                   col, row, Char(c.Y, row))
                            EXCEPT !.prev_value = s.Y_col[row]],
                         row, s.Z_row[idx])
               ELSE PutY([Classify(Copied(Touch(s, col, row,
                                                {<<"X", col>>, <<"Y", row>>,
                                                 <<"Y_col", row>>, <<"Y_col", row + 1>>}),
                                          col, row, s.Y_col[row + 1]),
                                   col, row, Char(c.Y, row))
                            EXCEPT !.prev_value = s.Y_col[row]],
                         row, s.Y_col[row + 1]),
               col, row, Char(c.Y, row))
        ELSE
          LET dc == DiagCost(Char(c.X, col), Char(c.Y, row))
          IN
          IF k.z_row = g.number_of_Z_rows - 1 \/ counter_row # k.max_rows
          THEN LET diag == dc + s.prev_value
                   top == INSERTION_COST + s.Y_col[row + 1]
                   right == INSERTION_COST + s.Y_col[row]
                   sd == Formed(Touch(s, col, row, {<<"X", col>>, <<"Y", row>>,
                                                    <<"Y_col", row>>, <<"Y_col", row + 1>>}),
                                col, row, s.prev_value, s.Y_col[row], s.Y_col[row + 1])
               IN PutY([sd EXCEPT !.prev_value = s.Y_col[row],
                                  !.diags = @ \cup {<<Char(c.X, col), Char(c.Y, row), dc>>}],
                       row, min(diag, right, top))
          ELSE IF k.counter_col = k.max_cols - 1
          THEN LET diag == dc + s.Z_row[idx + 1]
                   top == INSERTION_COST + s.Z_row[idx]
                   right == INSERTION_COST + s.Y_col[row]
                   sd == Formed(Touch(s, col, row, {<<"X", col>>, <<"Y", row>>,
                                                    <<"Y_col", row>>, <<"Z_row", idx>>,
                                                    <<"Z_row", idx + 1>>}),
                                col, row, s.Z_row[idx + 1], s.Y_col[row], s.Z_row[idx])
               IN PutY([sd EXCEPT !.prev_value = s.Y_col[row],
                                  !.diags = @ \cup {<<Char(c.X, col), Char(c.Y, row), dc>>}],
                       row, min(diag, right, top))
          ELSE LET diag == dc + s.prev_z
                   top == INSERTION_COST + s.Z_row[idx]
                   right == INSERTION_COST + s.Y_col[row]
                   sd == Formed(Touch(s, col, row, {<<"X", col>>, <<"Y", row>>,
                                                    <<"Y_col", row>>, <<"Z_row", idx>>}),
                                col, row, s.prev_z, s.Y_col[row], s.Z_row[idx])
               IN PutY([sd EXCEPT !.prev_value = s.Y_col[row],
                                  !.diags = @ \cup {<<Char(c.X, col), Char(c.Y, row), dc>>}],
                       row, min(diag, right, top))
  IN [s1 EXCEPT !.value_to_keep = s1.Y_col[row]]

RECURSIVE CA_Rows(_, _, _, _, _)
CA_Rows(c, g, k, s, counter_row) ==
  IF counter_row < 0 THEN s
  ELSE Then(CA_Cell(c, g, k, s, counter_row),
            LAMBDA st : CA_Rows(c, g, k, st, counter_row - 1))

\* Variant of CA_Column that saves the corner value one element further.
CA_Column_PastEnd(c, g, k, s) ==
  LET idx == k.counter_col + g.Z_row_length - k.max_cols
      s1 == Access(CA_Rows(c, g, k, s, k.max_rows), {<<"Z_row", idx>>})
      s2 == PutZ([s1 EXCEPT !.prev_z = s1.Z_row[idx]], idx, s1.value_to_keep)
  IN IF k.counter_col = k.max_cols - 1
     THEN PutZ(Access(s2, {<<"Z_row", g.Z_row_length + 1>>}),
               g.Z_row_length + 1, s2.prev_value)
     ELSE s2

\* Variant of CA_Column that does not save the corner value in Z_row.
CA_Column_NoCorner(c, g, k, s) ==
  LET idx == k.counter_col + g.Z_row_length - k.max_cols
      s1 == Access(CA_Rows(c, g, k, s, k.max_rows), {<<"Z_row", idx>>})
  IN PutZ([s1 EXCEPT !.prev_z = s1.Z_row[idx]], idx, s1.value_to_keep)

\* One column of a tile: the row loop, then the hand-over to Z_row.
CA_Column(c, g, k, s) ==
  LET idx == k.counter_col + g.Z_row_length - k.max_cols
      s1 == Access(CA_Rows(c, g, k, s, k.max_rows), {<<"Z_row", idx>>})
      s2 == PutZ([s1 EXCEPT !.prev_z = s1.Z_row[idx]], idx, s1.value_to_keep)
  IN IF k.counter_col = k.max_cols - 1
     THEN PutZ(Access(s2, {<<"Z_row", g.Z_row_length>>}), g.Z_row_length, s2.prev_value)
     ELSE s2

RECURSIVE CA_Cols(_, _, _, _, _)
CA_Cols(c, g, t, s, counter_col) ==
  IF counter_col < 0 THEN s
  ELSE LET col == CA_col(c, g, t.z_col, counter_col)
           k == [z_col |-> t.z_col, z_row |-> t.z_row, max_cols |-> t.max_cols,
                 max_rows |-> t.max_rows, counter_col |-> counter_col, col |-> col]
       IN Then(CA_Column(c, g, k, s),
               LAMBDA st : CA_Cols(c, g, t, st, counter_col - 1))

\* The buffers as they stand when the tile t begins: the tile covers columns
\* c_lo..c_hi and rows r_lo..r_hi.
AtTile(c, g, t, s) ==
  IF ~s.trace.on THEN s
  ELSE
  [s EXCEPT !.trace.tiles =
     Append(@, [c_lo |-> CA_col(c, g, t.z_col, 0),
                c_hi |-> CA_col(c, g, t.z_col, t.max_cols - 1),
                r_lo |-> CA_row(c, g, t.z_row, 0),
                r_hi |-> CA_row(c, g, t.z_row, t.max_rows),
                max_cols |-> t.max_cols, Z_row_length |-> g.Z_row_length,
                Y_col |-> Snapshot(s.Y_col), Z_row |-> Snapshot(s.Z_row)])]

RECURSIVE CA_TileRows(_, _, _, _, _, _)
CA_TileRows(c, g, z_col, max_cols, s, z_row) ==
  IF z_row < 0 THEN s
  ELSE LET left == c.N - (g.number_of_Z_rows - 1 - z_row) * g.Z
           max_rows0 == IF left > g.Z THEN g.Z ELSE left
           max_rows == IF z_row # g.number_of_Z_rows - 1 THEN max_rows0 - 1 ELSE max_rows0
           t == [z_col |-> z_col, z_row |-> z_row, max_cols |-> max_cols,
                 max_rows |-> max_rows]
       IN Then(CA_Cols(c, g, t, AtTile(c, g, t, s), max_cols - 1),
               LAMBDA st : CA_TileRows(c, g, z_col, max_cols, st, z_row - 1))

RECURSIVE CA_TileCols(_, _, _, _)
CA_TileCols(c, g, s, z_col) ==
  IF z_col < 0 THEN s
  ELSE LET left == c.M - (g.number_of_Z_cols - 1 - z_col) * g.Z
           max_cols == IF left > g.Z THEN g.Z ELSE left
       IN Then(CA_TileRows(c, g, z_col, max_cols, s, g.number_of_Z_rows - 1),
               LAMBDA st : CA_TileCols(c, g, st, z_col - 1))

EditDistance_NW_Iter_CA(a, lengthA, b, lengthB, tile, junk) ==
  LET c == Orient(a, lengthA, b, lengthB)
      g == [Z |-> tile,
            number_of_Z_rows |-> c.N \div tile + 1,
            number_of_Z_cols |-> c.M \div tile + 1,
            Z_row_length |-> IF tile > c.M THEN c.M ELSE tile]
      y0 == [Y_col |-> [row \in 0..c.N |-> IF row = c.N THEN 0 ELSE junk],
             stored |-> {0}, diags |-> {}, nonbase |-> {}, reported |-> {},
             trace |-> StartTrace]
      y1 == InitY_col(c, Access(y0, {<<"Y_col", c.N>>}), c.N - 1)
      s0 == [Y_col |-> y1.Y_col, stored |-> y1.stored, diags |-> {},
             nonbase |-> y1.nonbase, reported |-> y1.reported, trace |-> y1.trace,
             Z_row |-> [i \in 0..g.Z_row_length |-> junk],
             prev_value |-> junk, prev_z |-> junk, value_to_keep |-> junk]
      s == Access(CA_TileCols(c, g, s0, g.number_of_Z_cols - 1), {<<"Y_col", 0>>})
  IN [res |-> s.Y_col[0], ctx |-> c, stored |-> s.stored, diags |-> s.diags,
      nonbase |-> s.nonbase, reported |-> s.reported, trace |-> s.trace,
      Z_row_length |-> g.Z_row_length]

(***************************************************************************)
(* Cache-oblivious engine, with the threshold (the global CO_BREAKPOINT)   *)
(* taken as the parameter bp.  The locals of CalculateBlock_CO start       *)
(* uninitialized in every call.                                            *)
(***************************************************************************)
CO_Cell(c, blk, s, col, row) ==
  LET s1 ==
        IF row = c.N
        THEN PutY([Classify(Touch(s, col, row, {<<"X", col>>, <<"Y_col", row>>}),
                            col, row, Char(c.X, col))
                     EXCEPT !.prev_value_y = s.Y_col[row]],
                  row, BoundaryCost(Char(c.X, col)) + s.Y_col[row])
        ELSE IF ~isBase(Char(c.X, col))
        THEN ManageBaseError(
               [Classify(Touch(s, col, row, {<<"X", col>>, <<"Y_col", row>>}),
                         col, row, Char(c.X, col))
                  EXCEPT !.prev_value_y = s.Y_col[row]],
               col, row, Char(c.X, col))
        ELSE IF ~isBase(Char(c.Y, row))
        THEN ManageBaseError(
               IF row = blk.Y_end
               THEN PutY([Classify(Copied(Touch(s, col, row,
                                                {<<"X", col>>, <<"Y", row>>,
                                                 <<"Y_col", row>>, <<"Z_row", col>>}),
                                          col, row, s.Z_row[col]),
                                   col, row, Char(c.Y, row))
                            EXCEPT !.prev_value_y = s.Y_col[row]],
                         row, s.Z_row[col])
               ELSE PutY([Classify(Copied(Touch(s, col, row,
                                                {<<"X", col>>, <<"Y", row>>,
                                                 <<"Y_col", row>>, <<"Y_col", row + 1>>}),
                                          col, row, s.Y_col[row + 1]),
                                   col, row, Char(c.Y, row))
                            EXCEPT !.prev_value_y = s.Y_col[row]],
                         row, s.Y_col[row + 1]),
               col, row, Char(c.Y, row))
        ELSE
          LET dc == DiagCost(Char(c.X, col), Char(c.Y, row))
          IN
          IF row = blk.Y_end /\ col = blk.Z_end
          THEN LET diag == dc + s.Z_row[col + 1]
                   left == INSERTION_COST + s.Y_col[row]
                   top == INSERTION_COST + s.Z_row[col]
                   sd == Formed(Touch(s, col, row, {<<"X", col>>, <<"Y", row>>,
                                                    <<"Y_col", row>>, <<"Z_row", col>>,
                                                    <<"Z_row", col + 1>>}),
                                col, row, s.Z_row[col + 1], s.Y_col[row], s.Z_row[col])
               IN PutY([sd EXCEPT !.prev_value_y = s.Y_col[row],
                                  !.diags = @ \cup {<<Char(c.X, col), Char(c.Y, row), dc>>}],
                       row, min(diag, left, top))
          ELSE IF row = blk.Y_end
          THEN LET diag == dc + s.prev_value_z
                   left == INSERTION_COST + s.Y_col[row]
                   top == INSERTION_COST + s.Z_row[col]
                   sd == Formed(Touch(s, col, row, {<<"X", col>>, <<"Y", row>>,
                                                    <<"Y_col", row>>, <<"Z_row", col>>}),
                                col, row, s.prev_value_z, s.Y_col[row], s.Z_row[col])
               IN PutY([sd EXCEPT !.prev_value_y = s.Y_col[row],
                                  !.diags = @ \cup {<<Char(c.X, col), Char(c.Y, row), dc>>}],
                       row, min(diag, left, top))
          ELSE LET diag == dc + s.prev_value_y
                   left == INSERTION_COST + s.Y_col[row]
                   top == INSERTION_COST + s.Y_col[row + 1]
                   sd == Formed(Touch(s, col, row, {<<"X", col>>, <<"Y", row>>,
                                                    <<"Y_col", row>>, <<"Y_col", row + 1>>}),
                                col, row, s.prev_value_y, s.Y_col[row], s.Y_col[row + 1])
               IN PutY([sd EXCEPT !.prev_value_y = s.Y_col[row],
                                  !.diags = @ \cup {<<Char(c.X, col), Char(c.Y, row), dc>>}],
                       row, min(diag, left, top))
  IN [s1 EXCEPT !.value_to_keep = s1.Y_col[row]]

RECURSIVE CO_Rows(_, _, _, _, _)
CO_Rows(c, blk, s, col, row) ==
  IF row < blk.Y_start THEN s
  ELSE Then(CO_Cell(c, blk, s, col, row),
            LAMBDA st : CO_Rows(c, blk, st, col, row - 1))

\* Variant of CO_Column that does not save the corner value in Z_row.
CO_Column_NoCorner(c, blk, s, col) ==
  LET s1 == Access(CO_Rows(c, blk, s, col, blk.Y_end), {<<"Z_row", col>>})
  IN PutZ([s1 EXCEPT !.prev_value_z = s1.Z_row[col]], col, s1.value_to_keep)

\* One column of a base block: the row loop, then the hand-over to Z_row.
CO_Column(c, blk, s, col) ==
  LET s1 == Access(CO_Rows(c, blk, s, col, blk.Y_end), {<<"Z_row", col>>})
      s2 == PutZ([s1 EXCEPT !.prev_value_z = s1.Z_row[col]], col, s1.value_to_keep)
  IN IF col = blk.Z_end
     THEN PutZ(Access(s2, {<<"Z_row", blk.Z_end + 1>>}), blk.Z_end + 1, s2.prev_value_y)
     ELSE s2

RECURSIVE CO_Cols(_, _, _, _)
CO_Cols(c, blk, s, col) ==
  IF col < blk.Z_start THEN s
  ELSE Then(CO_Column(c, blk, s, col),
            LAMBDA st : CO_Cols(c, blk, st, col - 1))

\* A call of CalculateBlock_CO begins: what it does with its ranges (kind)
\* and the calls it is nested in (s.stack) are noted.
Enter(s, blk, kind) ==
  IF ~s.trace.on THEN s
  ELSE
  [s EXCEPT !.trace.calls = Append(@, [blk |-> blk, kind |-> kind, stack |-> s.stack]),
            !.stack = Append(@, blk)]

\* The call returns: b held the buffers when it began, s holds them now.
Leave(s, b, blk, kind) ==
  IF ~s.trace.on THEN s
  ELSE
  [s EXCEPT !.stack = SubSeq(@, 1, Len(@) - 1),
            !.trace.blocks =
               Append(@, [blk |-> blk, kind |-> kind,
                          Y_in |-> Snapshot(b.Y_col), Z_in |-> Snapshot(b.Z_row),
                          Y_out |-> Snapshot(s.Y_col), Z_out |-> Snapshot(s.Z_row)])]

\* Variant of Half that cuts a range after its first element.
Half_First(lo, hi) == lo

\* The last element of the lower half of the range lo..hi.
Half(lo, hi) == lo + (hi - lo) \div 2

\* Variant of CO_Split that bisects the larger of the two ranges.
CO_Split_Larger(Z_start, Z_end, Y_start, Y_end, bp) ==
  IF Z_end - Z_start <= bp /\ Y_end - Y_start <= bp THEN "scan"
  ELSE IF Z_end - Z_start >= Y_end - Y_start THEN "columns"
  ELSE "rows"

\* The ranges a call of CalculateBlock_CO is given.
Block(Z_start, Z_end, Y_start, Y_end) ==
  [Z_start |-> Z_start, Z_end |-> Z_end, Y_start |-> Y_start, Y_end |-> Y_end]

\* The branch a call of CalculateBlock_CO takes.
CO_Split(Z_start, Z_end, Y_start, Y_end, bp) ==
  IF Z_end - Z_start > bp THEN "columns"
  ELSE IF Y_end - Y_start > bp THEN "rows"
  ELSE "scan"

\* b holds the two buffers (and the history of the call); the result is b
\* after the block is solved.
RECURSIVE CalculateBlock_CO(_, _, _, _, _, _, _, _)
CalculateBlock_CO(c, b, Z_start, Z_end, Y_start, Y_end, bp, junk) ==
  IF CO_Split(Z_start, Z_end, Y_start, Y_end, bp) = "columns"
  THEN Then(Then(CalculateBlock_CO(
                   c, Enter(b, Block(Z_start, Z_end, Y_start, Y_end), "columns"),
                   Half(Z_start, Z_end) + 1, Z_end, Y_start, Y_end, bp, junk),
                 LAMBDA st : CalculateBlock_CO(
                               c, st, Z_start, Half(Z_start, Z_end),
                               Y_start, Y_end, bp, junk)),
            LAMBDA st : Leave(st, b, Block(Z_start, Z_end, Y_start, Y_end), "columns"))
  ELSE IF CO_Split(Z_start, Z_end, Y_start, Y_end, bp) = "rows"
  THEN Then(Then(CalculateBlock_CO(
                   c, Enter(b, Block(Z_start, Z_end, Y_start, Y_end), "rows"),
                   Z_start, Z_end, Half(Y_start, Y_end) + 1, Y_end, bp, junk),
                 LAMBDA st : CalculateBlock_CO(
                               c, st, Z_start, Z_end,
                               Y_start, Half(Y_start, Y_end), bp, junk)),
            LAMBDA st : Leave(st, b, Block(Z_start, Z_end, Y_start, Y_end), "rows"))
  ELSE Then(CO_Cols(c, Block(Z_start, Z_end, Y_start, Y_end),
                    [Y_col |-> b.Y_col, Z_row |-> b.Z_row, stored |-> b.stored,
                     diags |-> b.diags, nonbase |-> b.nonbase,
                     reported |-> b.reported,
                     trace |-> Enter(b, Block(Z_start, Z_end, Y_start, Y_end),
                                     "scan").trace,
                     stack |-> Enter(b, Block(Z_start, Z_end, Y_start, Y_end),
                                     "scan").stack,
                     prev_value_y |-> junk, prev_value_z |-> junk,
                     value_to_keep |-> junk],
                    Z_end),
            LAMBDA st :
              Leave([Y_col |-> st.Y_col, Z_row |-> st.Z_row, stored |-> st.stored,
                     diags |-> st.diags, nonbase |-> st.nonbase,
                     reported |-> st.reported, trace |-> st.trace, stack |-> st.stack],
                    b, Block(Z_start, Z_end, Y_start, Y_end), "scan"))

\* Z_row[M] = 0, then Z_row[row] for row = M-1 .. 0.
RECURSIVE InitZ_row(_, _, _)
InitZ_row(c, s, row) ==
  IF row < 0 THEN s
  ELSE Then(PutZ(Classify(Access(s, {<<"X", row>>, <<"Z_row", row>>,
                                       <<"Z_row", row + 1>>}),
                          row, c.N, Char(c.X, row)), row,
                 BoundaryCost(Char(c.X, row)) + s.Z_row[row + 1]),
            LAMBDA st : InitZ_row(c, st, row - 1))

\* Variant of EditDistance_NW_Iter_CO whose first block stops at row N-1.
EditDistance_NW_Iter_CO_ShortRows(a, lengthA, b, lengthB, bp, junk) ==
  LET c == Orient(a, lengthA, b, lengthB)
      b0 == [Y_col |-> [row \in 0..c.N |-> IF row = c.N THEN 0 ELSE junk],
             Z_row |-> [row \in 0..c.M |-> IF row = c.M THEN 0 ELSE junk],
             stored |-> {0}, diags |-> {}, nonbase |-> {}, reported |-> {},
             trace |-> StartTrace, stack |-> <<>>]
      b1 == InitZ_row(c, Access(InitY_col(c, Access(b0, {<<"Y_col", c.N>>}), c.N - 1),
                                {<<"Z_row", c.M>>}),
                      c.M - 1)
      s == Access(CalculateBlock_CO(c, b1, 0, c.M - 1, 0, c.N - 1, bp, junk),
                  {<<"Y_col", 0>>})
  IN [res |-> s.Y_col[0], ctx |-> c, stored |-> s.stored, diags |-> s.diags,
      nonbase |-> s.nonbase, reported |-> s.reported, trace |-> s.trace]

EditDistance_NW_Iter_CO(a, lengthA, b, lengthB, bp, junk) ==
  LET c == Orient(a, lengthA, b, lengthB)
      b0 == [Y_col |-> [row \in 0..c.N |-> IF row = c.N THEN 0 ELSE junk],
             Z_row |-> [row \in 0..c.M |-> IF row = c.M THEN 0 ELSE junk],
             stored |-> {0}, diags |-> {}, nonbase |-> {}, reported |-> {},
             trace |-> StartTrace, stack |-> <<>>]
      b1 == InitZ_row(c, Access(InitY_col(c, Access(b0, {<<"Y_col", c.N>>}), c.N - 1),
                                {<<"Z_row", c.M>>}),
                      c.M - 1)
      s == Access(CalculateBlock_CO(c, b1, 0, c.M - 1, 0, c.N, bp, junk),
                  {<<"Y_col", 0>>})
  IN [res |-> s.Y_col[0], ctx |-> c, stored |-> s.stored, diags |-> s.diags,
      nonbase |-> s.nonbase, reported |-> s.reported, trace |-> s.trace]

(***************************************************************************)
(* The working buffers of one engine call.  A call is followed through its *)
(* malloc, use and free statements; failAt is the rank of the malloc call  *)
(* that returns NULL (0: none does).  A buffer is a pair: <<"memo", -1>>   *)
(* is the table of row pointers, <<"memo", i>> is row i.                   *)
(***************************************************************************)
Y_col == <<"Y_col", 0>>

Z_row == <<"Z_row", 0>>

memo == <<"memo", -1>>

memoRow(i) == <<"memo", i>>

Buffers == {Y_col, Z_row, memo} \cup {memoRow(i) : i \in 0..MaxLength}

NoHeap ==
  [engine |-> "none", lengthA |-> 0, lengthB |-> 0,
   live |-> {}, allocated |-> {}, null |-> {}, nullUsed |-> {}, freedUsed |-> {},
   frees |-> [b \in Buffers |-> 0],
   reported |-> FALSE, outcome |-> "idle"]

\* p = malloc(...): the buffer is live, or p is NULL.
Malloc(h, b, ok) ==
  IF ok THEN [h EXCEPT !.live = @ \cup {b}, !.allocated = @ \cup {b}]
  ELSE [h EXCEPT !.null = @ \cup {b}]

\* A read or a write of an element of the buffer: through NULL, in a buffer
\* that has been freed, or in a live buffer.
Use(h, b) ==
  IF b \in h.null THEN [h EXCEPT !.nullUsed = @ \cup {b}]
  ELSE IF b \in h.allocated \ h.live THEN [h EXCEPT !.freedUsed = @ \cup {b}]
  ELSE h

\* free(p); free(NULL) does nothing.
Free(h, b) ==
  IF b \in h.null THEN h
  ELSE [h EXCEPT !.live = @ \ {b}, !.frees[b] = @ + 1]

\* perror(...); exit(EXIT_FAILURE);
ExitFailure(h) == [h EXCEPT !.reported = TRUE, !.outcome = "exit_failure"]

\* return res;
ReturnRes(h) == [h EXCEPT !.outcome = "returned"]

\* An access through a NULL pointer or to a freed buffer is undefined: the
\* call is killed there (ub = "crash") or runs on (ub = "goes_on").
Undefined(h, ub, rest(_)) ==
  IF (h.nullUsed # {} \/ h.freedUsed # {}) /\ ub = "crash"
  THEN [h EXCEPT !.outcome = "crash"]
  ELSE rest(h)

StartCall(engine, lengthA, lengthB) ==
  [NoHeap EXCEPT !.engine = engine, !.lengthA = lengthA, !.lengthB = lengthB]

\* The rows of the memo table: malloc, NULL test, initialisation.
RECURSIVE AllocRows(_, _, _, _)
AllocRows(h, i, M, failAt) ==
  IF i > M THEN h
  ELSE LET h1 == Malloc(h, memoRow(i), failAt # i + 2)
       IN IF memoRow(i) \in h1.null THEN ExitFailure(h1)
          ELSE AllocRows(Use(h1, memoRow(i)), i + 1, M, failAt)

RECURSIVE FreeRows(_, _, _)
FreeRows(h, i, M) ==
  IF i > M THEN h ELSE FreeRows(Free(h, memoRow(i)), i + 1, M)

Heap_Rec(lengthA, lengthB, failAt) ==
  LET c == Orient(<<>>, lengthA, <<>>, lengthB)
      h1 == Malloc(StartCall("Rec", lengthA, lengthB), memo, failAt # 1)
      h2 == AllocRows(Use(h1, memo), 0, c.M, failAt)
  IN IF memo \in h1.null THEN ExitFailure(h1)
     ELSE IF h2.outcome = "exit_failure" THEN h2
     ELSE ReturnRes(Free(FreeRows(Use(h2, memoRow(0)), 0, c.M), memo))

\* part_001: Y_col is released before the return.
Heap_Iter(lengthA, lengthB, failAt) ==
  LET h1 == Malloc(StartCall("Iter", lengthA, lengthB), Y_col, failAt # 1)
  IN IF Y_col \in h1.null THEN ExitFailure(h1)
     ELSE ReturnRes(Free(Use(h1, Y_col), Y_col))

\* part_000: the same engine, ending in "return Y_col[0];".
Heap_Iter_part_000(lengthA, lengthB, failAt) ==
  LET h1 == Malloc(StartCall("Iter_part_000", lengthA, lengthB), Y_col, failAt # 1)
  IN IF Y_col \in h1.null THEN ExitFailure(h1)
     ELSE ReturnRes(Use(h1, Y_col))

\* part_001, second copy of the file (lines 800-871): the same engine, ending
\* in "free(Y_col); return Y_col[0];".
Heap_Iter_copy2(lengthA, lengthB, failAt, ub) ==
  LET h1 == Malloc(StartCall("Iter_copy2", lengthA, lengthB), Y_col, failAt # 1)
  IN IF Y_col \in h1.null THEN ExitFailure(h1)
     ELSE Undefined(Use(Free(Use(h1, Y_col), Y_col), Y_col), ub,
                    LAMBDA h : ReturnRes(h))

\* The blocked engine reads and writes Z_row once a column is swept (M > 0).
Heap_CA(lengthA, lengthB, failAt, ub) ==
  LET c == Orient(<<>>, lengthA, <<>>, lengthB)
      h1 == Malloc(StartCall("CA", lengthA, lengthB), Y_col, failAt # 1)
      h2 == Malloc(Use(h1, Y_col), Z_row, failAt # 2)
      h3 == IF c.M > 0 THEN Use(h2, Z_row) ELSE h2
  IN IF Y_col \in h1.null THEN ExitFailure(h1)
     ELSE Undefined(h3, ub, LAMBDA h : ReturnRes(Free(Free(h, Y_col), Z_row)))

\* part_001, second copy of the file (lines 873-1026): the blocked engine,
\* ending in "free(Y_col); free(Z_row); return Y_col[0];".
Heap_CA_copy2(lengthA, lengthB, failAt, ub) ==
  LET c == Orient(<<>>, lengthA, <<>>, lengthB)
      h1 == Malloc(StartCall("CA_copy2", lengthA, lengthB), Y_col, failAt # 1)
      h2 == Malloc(Use(h1, Y_col), Z_row, failAt # 2)
      h3 == IF c.M > 0 THEN Use(h2, Z_row) ELSE h2
  IN IF Y_col \in h1.null THEN ExitFailure(h1)
     ELSE Undefined(h3, ub,
            LAMBDA h : Undefined(Use(Free(Free(h, Y_col), Z_row), Y_col), ub,
                                 LAMBDA g : ReturnRes(g)))

\* The cache-oblivious engine writes Z_row[M] right after the malloc.
Heap_CO(lengthA, lengthB, failAt, ub) ==
  LET h1 == Malloc(StartCall("CO", lengthA, lengthB), Y_col, failAt # 1)
      h2 == Malloc(Use(h1, Y_col), Z_row, failAt # 2)
      h3 == Use(h2, Z_row)
  IN IF Y_col \in h1.null THEN ExitFailure(h1)
     ELSE Undefined(h3, ub, LAMBDA h : ReturnRes(Free(Free(h, Y_col), Z_row)))

(***************************************************************************)
(* perfMesure.c: the RAPL energy counters.  A counter file is absent       *)
(* (fopen returns NULL), unreadable as a number (fscanf does not return 1) *)
(* or holds a value.                                                       *)
(***************************************************************************)
NBMAXCORE == 8

Cores == 0..(NBMAXCORE - 1)

Absent == [open |-> FALSE, parses |-> FALSE, value |-> 0]

Garbage == [open |-> TRUE, parses |-> FALSE, value |-> 0]

Counter(v) == [open |-> TRUE, parses |-> TRUE, value |-> v]

\* The for loop: NbCore is assigned only where fopen fails.
RECURSIVE ReadCounters(_, _, _)
ReadCounters(files, rapl_uj_counters, i) ==
  IF i >= NBMAXCORE THEN [NbCore |-> 0, rapl_uj_counters |-> rapl_uj_counters]
  ELSE IF ~files[i].open THEN [NbCore |-> i, rapl_uj_counters |-> rapl_uj_counters]
  ELSE ReadCounters(files,
                    IF files[i].parses
                    THEN [rapl_uj_counters EXCEPT ![i] = files[i].value]
                    ELSE rapl_uj_counters,
                    i + 1)

get_energy_uj_counter(files, rapl_uj_counters) ==
  LET r == ReadCounters(files, rapl_uj_counters, 0)
  IN IF r.NbCore = 0
     THEN [NbCore |-> 0, rapl_uj_counters |-> [r.rapl_uj_counters EXCEPT ![0] = 0]]
     ELSE r

NoCounters == [i \in Cores |-> 0]

NoRapl == [files |-> [i \in Cores |-> Absent], rapl_uj_counters |-> NoCounters,
           NbCore |-> 0, called |-> FALSE]

(***************************************************************************)
(* perfMesure.c: perfstart and perfstop_and_display.  sys is the machine:  *)
(* the clock of gettimeofday, the counters of getrusage (they advance      *)
(* together) and ncores RAPL counters holding uj microjoules each.         *)
(* cumul_energy is kept in microjoules (the code divides by 3600e9).       *)
(***************************************************************************)
RusageFields ==
  {"ru_utime", "ru_stime", "ru_minflt", "ru_majflt", "ru_inblock", "ru_oublock"}

gettimeofday(sys) == sys.time

getrusage(sys) == [f \in RusageFields |-> sys.ru]

RaplFiles(sys) == [i \in Cores |-> IF i < sys.ncores THEN Counter(sys.uj) ELSE Absent]

RECURSIVE SumEnergy(_, _, _)
SumEnergy(new, old, n) ==
  IF n = 0 THEN 0 ELSE (new[n - 1] - old[n - 1]) + SumEnergy(new, old, n - 1)

NoMyperf ==
  [current_rapl_energy_uj |-> NoCounters,
   current_timeofday |-> 0,
   current_rusage |-> [f \in RusageFields |-> 0],
   cumul_elapsed_time |-> 0, cumul_cpuusertime |-> 0, cumul_systime |-> 0,
   cumul_energy |-> 0, cumul_pagequeries |-> 0, cumul_pagefaults |-> 0,
   cumul_read_blk |-> 0, cumul_write_blk |-> 0]

perfstart(p, sys) ==
  [NoMyperf EXCEPT
     !.current_rapl_energy_uj =
        get_energy_uj_counter(RaplFiles(sys), p.current_rapl_energy_uj).rapl_uj_counters,
     !.current_timeofday = gettimeofday(sys),
     !.current_rusage = getrusage(sys)]

\* sys1 is the machine when the counters are read at the top of
\* the function, sys2 when they are read again at its end.
perfstop_and_display(p, sys1, sys2) ==
  LET old == p
      ru == getrusage(sys1)
      tod == gettimeofday(sys1)
      e == get_energy_uj_counter(RaplFiles(sys1), p.current_rapl_energy_uj)
      nb_core == e.NbCore
      energy == SumEnergy(e.rapl_uj_counters, old.current_rapl_energy_uj, nb_core)
  IN [current_rapl_energy_uj |->
        get_energy_uj_counter(RaplFiles(sys2), e.rapl_uj_counters).rapl_uj_counters,
      current_timeofday |-> gettimeofday(sys2),
      current_rusage |-> getrusage(sys2),
      cumul_elapsed_time |-> old.cumul_elapsed_time + (tod - old.current_timeofday),
      cumul_cpuusertime |->
        old.cumul_cpuusertime + (ru.ru_utime - old.current_rusage.ru_utime),
      cumul_systime |-> old.cumul_systime + (ru.ru_stime - old.current_rusage.ru_stime),
      cumul_energy |->
        IF nb_core # 0 THEN old.cumul_energy + energy ELSE old.cumul_energy,
      cumul_pagequeries |->
        old.cumul_pagequeries + (ru.ru_minflt - old.current_rusage.ru_minflt),
      cumul_pagefaults |->
        old.cumul_pagefaults + (ru.ru_majflt - old.current_rusage.ru_majflt),
      cumul_read_blk |->
        old.cumul_read_blk + (ru.ru_inblock - old.current_rusage.ru_inblock),
      cumul_write_blk |->
        old.cumul_write_blk + (ru.ru_oublock - old.current_rusage.ru_oublock)]

NoSys == [time |-> 0, ru |-> 0, uj |-> 0, ncores |-> 0]

NoPerf == [p |-> NoMyperf, sys |-> NoSys, start |-> NoSys, last |-> NoSys,
           started |-> FALSE, stopped |-> FALSE]

(***************************************************************************)
(* perfMesureCommand.c: main.  Of each argument only its length and, for   *)
(* argv[1], whether it is "-h" or "--h", matter.  cmd is the buffer the    *)
(* command line is built in; len is strlen(cmd).                           *)
(***************************************************************************)
_SIZEMAXCMD_JL == 1000

SizeofCmd == _SIZEMAXCMD_JL + 15

StrlenPrefix == 14

NoCmd ==
  [lengths |-> <<>>, help |-> FALSE, valcde |-> 0, ran |-> FALSE,
   overflow |-> FALSE, status |-> "idle", exit_status |-> 0]

\* strncat(dest, src, n) appends at most n characters of src.
Appended(arglen, n) == IF n <= 0 THEN 0 ELSE IF arglen < n THEN arglen ELSE n

\* The for loop over the arguments.  strncat writes the terminating NUL at
\* index strlen: past the buffer when strlen reaches sizeof(cmd).
RECURSIVE BuildCmd(_, _, _)
BuildCmd(lengths, arg, b) ==
  IF arg > Len(lengths) THEN b
  ELSE LET arglen == lengths[arg]
           len == b.len + Appended(arglen, b.rem_size) + 1
       IN IF arglen > b.rem_size + 1 THEN [b EXCEPT !.err = TRUE]
          ELSE BuildCmd(lengths, arg + 1,
                        [b EXCEPT !.len = len,
                                  !.overflow = @ \/ len > SizeofCmd - 1,
                                  !.rem_size = @ - arglen - 1])

\* err(1, ...)
Err(c) == [c EXCEPT !.status = "exited", !.exit_status = 1]

\* return 0;
Return0(c) == [c EXCEPT !.status = "exited", !.exit_status = 0]

\* A write past the end of cmd is undefined: the program is killed
\* (ub = "crash") or runs on (ub = "goes_on").
main(lengths, help, valcde, ub) ==
  LET c == [NoCmd EXCEPT !.lengths = lengths, !.help = help]
      b == BuildCmd(lengths, 1,
                    [len |-> StrlenPrefix, rem_size |-> SizeofCmd - StrlenPrefix - 1,
                     overflow |-> FALSE, err |-> FALSE])
  IN IF Len(lengths) = 0 THEN Err(c)
     ELSE IF help THEN Return0(c)
     ELSE IF b.err THEN Err(c)
     ELSE IF b.overflow /\ ub = "crash"
          THEN [c EXCEPT !.overflow = TRUE, !.status = "crash"]
     ELSE Return0([c EXCEPT !.overflow = b.overflow, !.ran = TRUE, !.valcde = valcde])

(***************************************************************************)
(* The harness: two sequences are drawn, then each engine is called once   *)
(* on them.                                                                *)
(***************************************************************************)
NoCtx == [X |-> <<>>, M |-> 0, Y |-> <<>>, N |-> 0]

NoHook == [nonbase |-> {}, reported |-> {}]

NoTable == [memo |-> <<>>, writes |-> <<>>]

Init ==
  /\ A \in Inputs
  /\ B \in Inputs
  /\ pc = "Rec"
  /\ res = <<>>
  /\ ctx = NoCtx
  /\ param = 0
  /\ stored = {}
  /\ diags = {}
  /\ hook = NoHook
  /\ table = NoTable
  /\ trace = NoTrace
  /\ heap = NoHeap
  /\ rapl = NoRapl
  /\ perf = NoPerf
  /\ cmd = NoCmd

Returns(engine, next, r, p) ==
  /\ pc' = next
  /\ UNCHANGED <<heap, rapl, perf, cmd>>
  /\ hook' = [nonbase |-> r.nonbase, reported |-> r.reported]
  /\ table' = IF engine = "Rec" THEN [memo |-> r.memo, writes |-> r.writes] ELSE table
  /\ trace' = r.trace
  /\ res' = (engine :> r.res) @@ res
  /\ ctx' = r.ctx
  /\ param' = p
  /\ stored' = r.stored
  /\ diags' = r.diags
  /\ UNCHANGED <<A, B>>

CallRec ==
  /\ pc = "Rec"
  /\ \E pad \in Alphabet :
       Returns("Rec", "Iter", EditDistance_NW_Rec(A, Len(A), B, Len(B), pad), 0)

CallIter ==
  /\ pc = "Iter"
  /\ \E junk \in Junk :
       Returns("Iter", "CA", EditDistance_NW_Iter(A, Len(A), B, Len(B), junk), 0)

CallCA ==
  /\ pc = "CA"
  /\ \E tile \in TileEdges, junk \in Junk :
       Returns("CA", "CO",
               EditDistance_NW_Iter_CA(A, Len(A), B, Len(B), tile, junk), tile)

CallCO ==
  /\ pc = "CO"
  /\ \E bp \in Breakpoints, junk \in Junk :
       Returns("CO", "done",
               EditDistance_NW_Iter_CO(A, Len(A), B, Len(B), bp, junk), bp)

Next == CallRec \/ CallIter \/ CallCA \/ CallCO

Spec == Init /\ [][Next]_vars

(***************************************************************************)
(* The same calls, followed cell by cell: every engine call records its    *)
(* visits, its accesses and the values it reads in trace.                  *)
(***************************************************************************)
InitTrace ==
  /\ A \in TraceInputs
  /\ B \in TraceInputs
  /\ pc = "Rec"
  /\ res = <<>>
  /\ ctx = NoCtx
  /\ param = 0
  /\ stored = {}
  /\ diags = {}
  /\ hook = NoHook
  /\ table = NoTable
  /\ trace = [NoTrace EXCEPT !.on = TRUE]
  /\ heap = NoHeap
  /\ rapl = NoRapl
  /\ perf = NoPerf
  /\ cmd = NoCmd

SpecTrace == InitTrace /\ [][Next]_vars

(***************************************************************************)
(* The allocation harness: one engine call, on sequences of any two        *)
(* lengths, with any one of its malloc calls failing or none.              *)
(***************************************************************************)
EngineOff ==
  /\ A = <<>>
  /\ B = <<>>
  /\ pc = "off"
  /\ res = <<>>
  /\ ctx = NoCtx
  /\ param = 0
  /\ stored = {}
  /\ diags = {}
  /\ hook = NoHook
  /\ table = NoTable
  /\ trace = NoTrace

InitHeap == EngineOff /\ heap = NoHeap /\ rapl = NoRapl /\ perf = NoPerf /\ cmd = NoCmd

UndefinedOutcomes == {"crash", "goes_on"}

AllocRec ==
  /\ heap.outcome = "idle"
  /\ \E lengthA \in Lengths, lengthB \in Lengths, failAt \in 0..(MaxLength + 2) :
       heap' = Heap_Rec(lengthA, lengthB, failAt)
  /\ UNCHANGED <<engineVars, rapl, perf, cmd>>

AllocIter ==
  /\ heap.outcome = "idle"
  /\ \E lengthA \in Lengths, lengthB \in Lengths, failAt \in 0..1 :
       heap' = Heap_Iter(lengthA, lengthB, failAt)
  /\ UNCHANGED <<engineVars, rapl, perf, cmd>>

AllocIter_part_000 ==
  /\ heap.outcome = "idle"
  /\ \E lengthA \in Lengths, lengthB \in Lengths, failAt \in 0..1 :
       heap' = Heap_Iter_part_000(lengthA, lengthB, failAt)
  /\ UNCHANGED <<engineVars, rapl, perf, cmd>>

AllocIter_copy2 ==
  /\ heap.outcome = "idle"
  /\ \E lengthA \in Lengths, lengthB \in Lengths, failAt \in 0..1,
        ub \in UndefinedOutcomes :
       heap' = Heap_Iter_copy2(lengthA, lengthB, failAt, ub)
  /\ UNCHANGED <<engineVars, rapl, perf, cmd>>

AllocCA_copy2 ==
  /\ heap.outcome = "idle"
  /\ \E lengthA \in Lengths, lengthB \in Lengths, failAt \in 0..2,
        ub \in UndefinedOutcomes :
       heap' = Heap_CA_copy2(lengthA, lengthB, failAt, ub)
  /\ UNCHANGED <<engineVars, rapl, perf, cmd>>

AllocCA ==
  /\ heap.outcome = "idle"
  /\ \E lengthA \in Lengths, lengthB \in Lengths, failAt \in 0..2,
        ub \in UndefinedOutcomes :
       heap' = Heap_CA(lengthA, lengthB, failAt, ub)
  /\ UNCHANGED <<engineVars, rapl, perf, cmd>>

AllocCO ==
  /\ heap.outcome = "idle"
  /\ \E lengthA \in Lengths, lengthB \in Lengths, failAt \in 0..2,
        ub \in UndefinedOutcomes :
       heap' = Heap_CO(lengthA, lengthB, failAt, ub)
  /\ UNCHANGED <<engineVars, rapl, perf, cmd>>

NextHeap ==
  \/ AllocRec
  \/ AllocIter
  \/ AllocIter_part_000
  \/ AllocIter_copy2
  \/ AllocCA
  \/ AllocCA_copy2
  \/ AllocCO

SpecHeap == InitHeap /\ [][NextHeap]_vars

(***************************************************************************)
(* Properties.                                                             *)
(***************************************************************************)
Returned == DOMAIN res

HasSymbol(s, sym) == \E i \in 1..Len(s) : s[i] = sym

NumBases(s) == Cardinality({i \in 1..Len(s) : isBase(s[i])})

MaxOf(a, b) == IF a >= b THEN a ELSE b

\* C1: on every pair of inputs the four engines return the same integer:
\* whatever engines have returned so far, their results are equal.
C1_EnginesAgree ==
  \A e1 \in Returned : \A e2 \in Returned : res[e1] = res[e2]

C1_Witness ==
  /\ pc = "done"
  /\ Len(A) >= 4 /\ Len(B) >= 3
  /\ HasSymbol(A, "-") /\ HasSymbol(B, "N") /\ HasSymbol(B, "C")
  /\ res["CO"] > 0

\* The diagonal cost as the recurrence states it: 0 when the two bases match,
\* else the unknown-substitution cost when either base is the unknown base,
\* else the substitution cost.
ClaimedDiagCost(Xi, Yj) ==
  IF isSameBase(Xi, Yj) THEN 0
  ELSE IF isUnknownBase(Xi) \/ isUnknownBase(Yj) THEN SUBSTITUTION_UNKNOWN_COST
  ELSE SUBSTITUTION_COST

\* C2: in every engine the diagonal option formed for a cell whose two symbols
\* are bases costs 0 on a match, the unknown-substitution cost if either base
\* is the unknown base, the substitution cost otherwise.
C2_DiagonalCost ==
  \A d \in diags : d[3] = ClaimedDiagCost(d[1], d[2])

\* The recurrence phi(i, j) over the oriented sequences, evaluated directly.
\* The cost of the diagonal option is the one the engines use (C2 is about it).
RECURSIVE Phi(_, _, _)
Phi(c, i, j) ==
  IF i = c.M /\ j = c.N THEN 0
  ELSE IF i = c.M
  THEN (IF isBase(Char(c.Y, j)) THEN INSERTION_COST ELSE 0) + Phi(c, i, j + 1)
  ELSE IF j = c.N
  THEN (IF isBase(Char(c.X, i)) THEN INSERTION_COST ELSE 0) + Phi(c, i + 1, j)
  ELSE IF ~isBase(Char(c.X, i)) THEN Phi(c, i + 1, j)
  ELSE IF ~isBase(Char(c.Y, j)) THEN Phi(c, i, j + 1)
  ELSE LET diagonal == DiagCost(Char(c.X, i), Char(c.Y, j)) + Phi(c, i + 1, j + 1)
           vertical == INSERTION_COST + Phi(c, i + 1, j)
           horizontal == INSERTION_COST + Phi(c, i, j + 1)
       IN IF diagonal <= vertical /\ diagonal <= horizontal THEN diagonal
          ELSE IF vertical <= horizontal THEN vertical
          ELSE horizontal

\* C3: EditDistance_NW_Rec returns phi(0,0), phi following the base, boundary
\* and skip rules and the minimum of the diagonal, vertical and horizontal
\* options.
C3_RecReturnsPhi ==
  pc = "Iter" => res["Rec"] = Phi(ctx, 0, 0)

C3_Witness ==
  /\ pc = "Iter"
  /\ ctx.M >= 4 /\ ctx.N >= 3
  /\ HasSymbol(ctx.X, "-") /\ HasSymbol(ctx.Y, "-") /\ HasSymbol(ctx.X, "N")
  /\ res["Rec"] > INSERTION_COST

\* C4: symmetry: every engine returns for (B, A) what it returned for (A, B).
C4_Symmetry ==
  /\ "Rec" \in Returned =>
       \A pad \in Alphabet :
         EditDistance_NW_Rec(B, Len(B), A, Len(A), pad).res = res["Rec"]
  /\ "Iter" \in Returned =>
       \A junk \in Junk :
         EditDistance_NW_Iter(B, Len(B), A, Len(A), junk).res = res["Iter"]
  /\ "CA" \in Returned =>
       \A junk \in Junk :
         EditDistance_NW_Iter_CA(B, Len(B), A, Len(A), param, junk).res = res["CA"]
  /\ "CO" \in Returned =>
       \A junk \in Junk :
         EditDistance_NW_Iter_CO(B, Len(B), A, Len(A), param, junk).res = res["CO"]

\* C5: every returned distance and every value an engine stored in a working
\* buffer (memo, Y_col, Z_row) is >= 0; hence no computed memo entry equals
\* NOT_YET_COMPUTED.
C5_NonNegative ==
  /\ \A e \in Returned : res[e] >= 0
  /\ \A v \in stored : v >= 0 /\ v # NOT_YET_COMPUTED

C5_Witness ==
  /\ pc = "CO" /\ param = 1
  /\ ctx.M >= 4 /\ ctx.N >= 3
  /\ HasSymbol(ctx.X, "-") /\ HasSymbol(ctx.Y, "N")
  /\ Cardinality(stored) >= 4

\* C6: the returned distance is at most INSERTION_COST * max(lenA, lenB).
C6_Bounded ==
  \A e \in Returned : res[e] <= INSERTION_COST * MaxOf(Len(A), Len(B))

C6_Witness ==
  /\ pc = "done"
  /\ Len(B) >= 4 /\ Len(A) = 2
  /\ res["Iter"] = INSERTION_COST * Len(B)

\* C7: identity: on (S, S), S made of bases only, every engine returns 0.
C7_Identity ==
  (A = B /\ \A i \in 1..Len(A) : isBase(A[i])) =>
    \A e \in Returned : res[e] = 0

\* C8: tile-size invariance: for every tile edge the blocked engine returns
\* what the linear-space engine returns (so the same for any two edges).
C8_TileInvariance ==
  "CA" \in Returned => res["CA"] = res["Iter"]

C8_Witness ==
  /\ pc = "CO" /\ param = 2
  /\ ctx.M = 5 /\ ctx.N = 3
  /\ HasSymbol(ctx.Y, "-") /\ HasSymbol(ctx.X, "N")
  /\ res["CA"] > 0

\* C9: threshold invariance: for every threshold the cache-oblivious engine
\* returns what the linear-space engine returns.
C9_ThresholdInvariance ==
  "CO" \in Returned => res["CO"] = res["Iter"]

C9_Witness ==
  /\ pc = "done" /\ param = 0
  /\ ctx.M = 5 /\ ctx.N = 4
  /\ HasSymbol(ctx.Y, "-") /\ HasSymbol(ctx.X, "N")
  /\ res["CO"] > 0

\* C10: when one sequence is empty every engine returns INSERTION_COST times
\* the number of bases of the other one (0 when both are empty).
C10_Degenerate ==
  /\ Len(B) = 0 => \A e \in Returned : res[e] = INSERTION_COST * NumBases(A)
  /\ Len(A) = 0 => \A e \in Returned : res[e] = INSERTION_COST * NumBases(B)

C10_Witness ==
  /\ pc = "done"
  /\ A = <<"A", "A", "A", "A">> /\ B = <<>>
  /\ \A e \in {"Rec", "Iter", "CA", "CO"} : res[e] = 4 * INSERTION_COST

Strip(s) == SelectSeq(s, isBase)

\* C11: non-base stripping: every engine returns on (A, B) what it returns on
\* the two sequences with the symbols that are not bases removed.
C11_Stripping ==
  LET SA == Strip(A)
      SB == Strip(B)
  IN /\ pc = "Iter" =>
          \A pad \in Alphabet :
            EditDistance_NW_Rec(SA, Len(SA), SB, Len(SB), pad).res = res["Rec"]
     /\ pc = "CA" =>
          \A junk \in Junk :
            EditDistance_NW_Iter(SA, Len(SA), SB, Len(SB), junk).res = res["Iter"]
     /\ pc = "CO" =>
          \A junk \in Junk :
            EditDistance_NW_Iter_CA(SA, Len(SA), SB, Len(SB), param, junk).res = res["CA"]
     /\ pc = "done" =>
          \A junk \in Junk :
            EditDistance_NW_Iter_CO(SA, Len(SA), SB, Len(SB), param, junk).res = res["CO"]

AllUnknown(s) == \A i \in 1..Len(s) : isUnknownBase(s[i])

AllConcrete(s) == \A i \in 1..Len(s) : isBase(s[i]) /\ ~isUnknownBase(s[i])

\* C12: wildcard scenario: for two sequences of the same length L, one made of
\* unknown bases only and the other of concrete bases only, every engine
\* returns L * SUBSTITUTION_UNKNOWN_COST, whichever argument is the wildcard one.
C12_Wildcard ==
  ( /\ Len(A) = Len(B)
    /\ \/ AllUnknown(A) /\ AllConcrete(B)
       \/ AllUnknown(B) /\ AllConcrete(A) ) =>
    \A e \in Returned : res[e] = Len(A) * SUBSTITUTION_UNKNOWN_COST

\* C13: orientation: once an engine has returned, its context has N <= M,
\* (X, M) and (Y, N) are the two (sequence, length) arguments, and X is the
\* one that is not shorter (A when the lengths are equal).
C13_Orientation ==
  pc # "Rec" =>
    /\ ctx.N <= ctx.M
    /\ ctx.M = Len(ctx.X) /\ ctx.N = Len(ctx.Y)
    /\ Len(A) >= Len(B) => ctx.X = A /\ ctx.Y = B
    /\ Len(A) < Len(B) => ctx.X = B /\ ctx.Y = A

C13_Witness ==
  /\ pc = "done"
  /\ Len(A) = 2 /\ Len(B) = 5
  /\ ctx.X = B /\ ctx.Y = A /\ ctx.M = 5 /\ ctx.N = 2

\* C16: anomaly hook: every symbol that isBase rejected while a cell was
\* evaluated (interior or boundary cell) was reported to ManageBaseError for
\* that cell, and the engine returned.
C16_AnomalyHook ==
  pc # "Rec" => hook.nonbase \subseteq hook.reported

Cells == (0..ctx.M) \X (0..ctx.N)

Written == {ij \in Cells : table.writes[ij[1]][ij[2]] > 0}

\* C20 as stated: when EditDistance_NW_Rec returns, every cell of the
\* (M+1) x (N+1) table was written exactly once and none is left at
\* NOT_YET_COMPUTED.
C20_EveryCellOnce ==
  pc # "Rec" =>
    \A ij \in Cells :
      /\ table.writes[ij[1]][ij[2]] = 1
      /\ table.memo[ij[1]][ij[2]] # NOT_YET_COMPUTED

\* C20 amended: no cell is written more than once, a cell holds a value at
\* return exactly when it was written, cell (0,0) is written, and every cell
\* is written when neither sequence holds a symbol that is not a base.
C20_AtMostOnce ==
  pc # "Rec" =>
    /\ \A ij \in Cells :
         /\ table.writes[ij[1]][ij[2]] <= 1
         /\ table.writes[ij[1]][ij[2]] = 1 <=> table.memo[ij[1]][ij[2]] # NOT_YET_COMPUTED
    /\ <<0, 0>> \in Written
    /\ (NumBases(A) = Len(A) /\ NumBases(B) = Len(B)) => Written = Cells

C20_Witness ==
  /\ pc = "Iter"
  /\ ctx.M >= 4 /\ ctx.N >= 3
  /\ Written # Cells
  /\ Cardinality(Written) >= 8

(***************************************************************************)
(* The counter harness: get_energy_uj_counter is called once on any        *)
(* arrangement of the NBMAXCORE counter files; file i holds i + 1.         *)
(***************************************************************************)
FileSystems == [Cores -> {"absent", "garbage", "counter"}]

FilesOf(fs) ==
  [i \in Cores |-> CASE fs[i] = "absent" -> Absent
                    [] fs[i] = "garbage" -> Garbage
                    [] OTHER -> Counter(i + 1)]

InitRapl ==
  /\ EngineOff
  /\ heap = NoHeap
  /\ perf = NoPerf
  /\ cmd = NoCmd
  /\ \E fs \in FileSystems : rapl = [NoRapl EXCEPT !.files = FilesOf(fs)]

CallGetEnergy ==
  /\ ~rapl.called
  /\ LET r == get_energy_uj_counter(rapl.files, rapl.rapl_uj_counters)
     IN rapl' = [rapl EXCEPT !.rapl_uj_counters = r.rapl_uj_counters,
                             !.NbCore = r.NbCore, !.called = TRUE]
  /\ UNCHANGED <<engineVars, heap, perf, cmd>>

NextRapl == CallGetEnergy

SpecRapl == InitRapl /\ [][NextRapl]_vars

(***************************************************************************)
(* The measurement harness: the machine's counters advance, perfstart and  *)
(* perfstop_and_display are called on one struct myperf.                   *)
(***************************************************************************)
MaxClock == 2

CoreCounts == {0, 1, 2, NBMAXCORE}

\* The machines sys can become while time passes.
Advances(sys) ==
  {[sys EXCEPT !.time = @ + dt, !.ru = @ + dr, !.uj = @ + de] :
     dt \in 0..(MaxClock - sys.time), dr \in 0..(MaxClock - sys.ru),
     de \in 0..(MaxClock - sys.uj)}

InitPerf ==
  /\ EngineOff
  /\ heap = NoHeap
  /\ rapl = NoRapl
  /\ cmd = NoCmd
  /\ \E n \in CoreCounts : perf = [NoPerf EXCEPT !.sys.ncores = n]

PerfTick ==
  /\ \E sys2 \in Advances(perf.sys) \ {perf.sys} : perf' = [perf EXCEPT !.sys = sys2]
  /\ UNCHANGED <<engineVars, heap, rapl, cmd>>

PerfStart ==
  /\ perf' = [perf EXCEPT !.p = perfstart(perf.p, perf.sys), !.start = perf.sys,
                          !.last = NoSys, !.started = TRUE, !.stopped = FALSE]
  /\ UNCHANGED <<engineVars, heap, rapl, cmd>>

PerfStop ==
  /\ perf.started
  /\ \E sys2 \in Advances(perf.sys) :
       perf' = [perf EXCEPT !.p = perfstop_and_display(perf.p, perf.sys, sys2),
                            !.sys = sys2, !.last = perf.sys, !.stopped = TRUE]
  /\ UNCHANGED <<engineVars, heap, rapl, cmd>>

NextPerf == PerfTick \/ PerfStart \/ PerfStop

SpecPerf == InitPerf /\ [][NextPerf]_vars

(***************************************************************************)
(* The command harness: perfMesureCommand is run once on any argument      *)
(* list; system() returns any of its results.                              *)
(***************************************************************************)
MaxArgs == 2

ArgLengths == {1, 2, 3, _SIZEMAXCMD_JL - 2, _SIZEMAXCMD_JL - 1, _SIZEMAXCMD_JL,
               _SIZEMAXCMD_JL + 1, _SIZEMAXCMD_JL + 2}

\* -1: no child process; 0: the command succeeded; 256: it exited 1.
SystemResults == {-1, 0, 256}

\* strlen("-h"), strlen("--h")
HelpLengths == {2, 3}

InitCmd ==
  /\ EngineOff
  /\ heap = NoHeap
  /\ rapl = NoRapl
  /\ perf = NoPerf
  /\ cmd = NoCmd

RunMain ==
  /\ cmd.status = "idle"
  /\ \E n \in 0..MaxArgs :
       \E lengths \in [1..n -> ArgLengths], help \in BOOLEAN,
          valcde \in SystemResults, ub \in UndefinedOutcomes :
         /\ help => (n >= 1 /\ lengths[1] \in HelpLengths)
         /\ cmd' = main(lengths, help, valcde, ub)
  /\ UNCHANGED <<engineVars, heap, rapl, perf>>

NextCmd == RunMain

SpecCmd == InitCmd /\ [][NextCmd]_vars

\* C14: in every engine, a working-buffer malloc that fails is reported and
\* aborts the program: the missing buffer is never used and no distance is
\* returned.
C14_AllocationFailure ==
  (heap.outcome # "idle" /\ heap.null # {}) =>
    /\ heap.outcome = "exit_failure"
    /\ heap.reported
    /\ heap.nullUsed = {}

\* C15: on a normal return and on an allocation-failure abort alike, every
\* buffer the call allocated has been released exactly once.
C15_ScopedBuffers ==
  heap.outcome \in {"returned", "exit_failure"} =>
    /\ heap.live = {}
    /\ \A b \in heap.allocated : heap.frees[b] = 1

\* C17: after perfstart and at least one perfstop_and_display, every cumul
\* field is the counter as read by the last perfstop_and_display minus the
\* counter as read by perfstart.
C17_Accumulation ==
  perf.stopped =>
    /\ perf.p.cumul_elapsed_time = perf.last.time - perf.start.time
    /\ perf.p.cumul_cpuusertime = perf.last.ru - perf.start.ru
    /\ perf.p.cumul_systime = perf.last.ru - perf.start.ru
    /\ perf.p.cumul_pagequeries = perf.last.ru - perf.start.ru
    /\ perf.p.cumul_pagefaults = perf.last.ru - perf.start.ru
    /\ perf.p.cumul_read_blk = perf.last.ru - perf.start.ru
    /\ perf.p.cumul_write_blk = perf.last.ru - perf.start.ru
    /\ perf.p.cumul_energy = perf.sys.ncores * (perf.last.uj - perf.start.uj)

\* The number of counter files intel-rapl:0, intel-rapl:1, ... that open,
\* counted from 0 up to the first that does not.
RECURSIVE Found(_, _)
Found(files, i) ==
  IF i < NBMAXCORE /\ files[i].open THEN Found(files, i + 1) ELSE i

\* C18: where every counter file that opens holds a number,
\* get_energy_uj_counter returns the number k of consecutive counter files
\* found, k = NBMAXCORE included, and rapl_uj_counters[0..k-1] hold the
\* values read from them.
C18_CountersFound ==
  (rapl.called /\ \A i \in Cores : rapl.files[i].open => rapl.files[i].parses) =>
    /\ rapl.NbCore = Found(rapl.files, 0)
    /\ \A i \in 0..(Found(rapl.files, 0) - 1) :
         rapl.rapl_uj_counters[i] = rapl.files[i].value

\* The bytes the command line needs: the prefix, every argument followed
\* by a space, and the terminating NUL.
RECURSIVE CmdBytes(_, _)
CmdBytes(lengths, arg) ==
  IF arg > Len(lengths) THEN StrlenPrefix + 1
  ELSE lengths[arg] + 1 + CmdBytes(lengths, arg + 1)

\* C19: perfMesureCommand exits with a status > 0 exactly when an error
\* occurred: no command argument, a command line too long for the buffer,
\* or a command that failed (system returned non-zero).
C19_ExitStatus ==
  cmd.status = "exited" =>
    (cmd.exit_status > 0 <=>
       \/ Len(cmd.lengths) = 0
       \/ ~cmd.help /\ CmdBytes(cmd.lengths, 1) > SizeofCmd
       \/ cmd.ran /\ cmd.valcde # 0)


(***************************************************************************)
(* Properties of the calls followed cell by cell (SpecTrace).              *)
(***************************************************************************)
\* C21: in the iterative engine, Y_col holds column M of phi before the column
\* loop and column col after the outer-loop iteration for col; whenever the
\* diagonal term is formed at (col, row), prev_value = phi(col+1, row+1),
\* Y_col[row] = phi(col+1, row) and Y_col[row+1] = phi(col, row+1).
C21_IterLoopInvariant ==
  pc = "CA" =>
    /\ Len(trace.colObs) = ctx.M + 1
    /\ \A k \in 1..Len(trace.colObs) :
         /\ trace.colObs[k].col = ctx.M - (k - 1)
         /\ \A row \in 0..ctx.N :
              trace.colObs[k].Y_col[row] = Phi(ctx, trace.colObs[k].col, row)
    /\ \A d \in trace.diagObs :
         /\ d.prev_value = Phi(ctx, d.col + 1, d.row + 1)
         /\ d.right = Phi(ctx, d.col + 1, d.row)
         /\ d.top = Phi(ctx, d.col, d.row + 1)

\* An iterative call in which the diagonal term is formed inside the table,
\* once after a computed cell and once after a skipped one.
C21_Witness ==
  /\ pc = "CA"
  /\ ctx.M >= 4
  /\ ctx.N >= 3
  /\ \E d \in trace.diagObs : d.row + 1 < ctx.N /\ d.col + 1 < ctx.M
  /\ \E d \in trace.diagObs : d.row + 1 < ctx.N /\ ~isBase(Char(ctx.Y, d.row + 1))
  /\ Len(trace.colObs) = ctx.M + 1

\* The tiles of a blocked call that hold at least one cell.
Tiles == {k \in 1..Len(trace.tiles) :
            /\ trace.tiles[k].c_lo <= trace.tiles[k].c_hi
            /\ trace.tiles[k].r_lo <= trace.tiles[k].r_hi}

\* The slot of Z_row that column col of the tile t uses.
Slot(t, col) == (col - t.c_lo) + t.Z_row_length - t.max_cols

\* C22: when a tile of the blocked engine begins, Y_col holds column c_hi+1 of
\* phi on the rows of the tile and, below the top band, the Z_row slot of each
\* column c holds phi(c, r_hi+1) and Z_row[Z_row_length] = phi(c_hi+1, r_hi+1);
\* every value a cell is computed from is the value of phi in the cell it
\* stands for.
C22_TileInvariant ==
  pc = "CO" =>
    /\ \A k \in Tiles :
         /\ \A r \in trace.tiles[k].r_lo..trace.tiles[k].r_hi :
              trace.tiles[k].Y_col[r] = Phi(ctx, trace.tiles[k].c_hi + 1, r)
         /\ trace.tiles[k].r_hi < ctx.N =>
              /\ \A col \in trace.tiles[k].c_lo..trace.tiles[k].c_hi :
                   trace.tiles[k].Z_row[Slot(trace.tiles[k], col)]
                     = Phi(ctx, col, trace.tiles[k].r_hi + 1)
              /\ trace.tiles[k].Z_row[trace.tiles[k].Z_row_length]
                   = Phi(ctx, trace.tiles[k].c_hi + 1, trace.tiles[k].r_hi + 1)
    /\ \A d \in trace.diagObs :
         /\ d.prev_value = Phi(ctx, d.col + 1, d.row + 1)
         /\ d.right = Phi(ctx, d.col + 1, d.row)
         /\ d.top = Phi(ctx, d.col, d.row + 1)
    /\ \A d \in trace.skipObs : d.top = Phi(ctx, d.col, d.row + 1)

\* A blocked call with a tile below the top band and left of the last column
\* band, and a diagonal term formed across a tile corner.
C22_Witness ==
  /\ pc = "CO"
  /\ \E k \in Tiles :
       /\ trace.tiles[k].r_hi < ctx.N
       /\ trace.tiles[k].c_hi < ctx.M - 1
       /\ trace.tiles[k].c_lo < trace.tiles[k].c_hi
       /\ \E d \in trace.diagObs :
            d.col = trace.tiles[k].c_hi /\ d.row = trace.tiles[k].r_hi
  /\ trace.skipObs # {}

\* The cells of the table an iterative engine computes, and the place of a
\* cell in the order of the visits.
ScannedCells == (0..(ctx.M - 1)) \X (0..ctx.N)

Pos(cell) == CHOOSE k \in 1..Len(trace.visits) : trace.visits[k] = cell

VisitedOnce ==
  /\ Len(trace.visits) = Cardinality(ScannedCells)
  /\ \A cell \in ScannedCells : \E k \in 1..Len(trace.visits) : trace.visits[k] = cell

AfterDependencies ==
  \A cell \in ScannedCells :
    /\ cell[1] + 1 < ctx.M => Pos(<<cell[1] + 1, cell[2]>>) < Pos(cell)
    /\ cell[2] + 1 <= ctx.N => Pos(<<cell[1], cell[2] + 1>>) < Pos(cell)
    /\ (cell[1] + 1 < ctx.M /\ cell[2] + 1 <= ctx.N)
         => Pos(<<cell[1] + 1, cell[2] + 1>>) < Pos(cell)

\* C23: the four loops of the blocked engine process every cell (col, row),
\* 0 <= col < M, 0 <= row <= N, exactly once; the tiles come column band by
\* column band, the farthest from the origin first, and no cell is processed
\* before (col+1, row), (col, row+1) or (col+1, row+1).
C23_Sweep ==
  pc = "CO" =>
    /\ VisitedOnce
    /\ AfterDependencies
    /\ \A k1, k2 \in Tiles :
         k1 < k2 =>
           \/ trace.tiles[k2].c_hi < trace.tiles[k1].c_lo
           \/ /\ trace.tiles[k2].c_lo = trace.tiles[k1].c_lo
              /\ trace.tiles[k2].c_hi = trace.tiles[k1].c_hi
              /\ trace.tiles[k2].r_hi < trace.tiles[k1].r_lo
    /\ \A k \in 1..Len(trace.visits) :
         \E j \in Tiles :
           /\ trace.visits[k][1] \in trace.tiles[j].c_lo..trace.tiles[j].c_hi
           /\ trace.visits[k][2] \in trace.tiles[j].r_lo..trace.tiles[j].r_hi
           /\ \A i \in 1..(k - 1), j2 \in Tiles :
                (/\ trace.visits[i][1] \in trace.tiles[j2].c_lo..trace.tiles[j2].c_hi
                 /\ trace.visits[i][2] \in trace.tiles[j2].r_lo..trace.tiles[j2].r_hi)
                  => j2 <= j

\* A blocked call with partial bands in both directions and several tiles in
\* each.
C23_Witness ==
  /\ pc = "CO"
  /\ ctx.M = 5
  /\ ctx.N >= 4
  /\ param = 2
  /\ Cardinality(Tiles) >= 6
  /\ Len(trace.visits) = Cardinality(ScannedCells)

\* The column range and the row range of a block.
ColRange(blk) == blk.Z_end - blk.Z_start

RowRange(blk) == blk.Y_end - blk.Y_start

Children(k) ==
  {j \in 1..Len(trace.calls) :
     trace.calls[j].stack = Append(trace.calls[k].stack, trace.calls[k].blk)}

Halves(k, far, near) ==
  /\ far < near
  /\ trace.calls[far].blk.Z_end = trace.calls[k].blk.Z_end
  /\ trace.calls[far].blk.Y_end = trace.calls[k].blk.Y_end
  /\ trace.calls[near].blk.Z_start = trace.calls[k].blk.Z_start
  /\ trace.calls[near].blk.Y_start = trace.calls[k].blk.Y_start
  /\ IF trace.calls[k].kind = "columns"
     THEN /\ trace.calls[far].blk.Z_start = trace.calls[near].blk.Z_end + 1
          /\ trace.calls[far].blk.Y_start = trace.calls[k].blk.Y_start
          /\ trace.calls[near].blk.Y_end = trace.calls[k].blk.Y_end
     ELSE /\ trace.calls[far].blk.Y_start = trace.calls[near].blk.Y_end + 1
          /\ trace.calls[far].blk.Z_start = trace.calls[k].blk.Z_start
          /\ trace.calls[near].blk.Z_end = trace.calls[k].blk.Z_end

\* C25: in the cache-oblivious engine the two halves of every split are
\* disjoint and cover the parent range, the half farther from the origin is
\* solved first, every cell (col, row) with 0 <= col < M, 0 <= row <= N is
\* computed exactly once and never before (col+1, row), (col, row+1) and
\* (col+1, row+1).
C25_VisitOrder ==
  pc = "done" =>
    /\ Len(trace.calls) >= 1
    /\ trace.calls[1].stack = <<>>
    /\ trace.calls[1].blk =
         [Z_start |-> 0, Z_end |-> ctx.M - 1, Y_start |-> 0, Y_end |-> ctx.N]
    /\ \A k \in 1..Len(trace.calls) :
         IF trace.calls[k].kind = "scan"
         THEN Children(k) = {}
         ELSE /\ Cardinality(Children(k)) = 2
              /\ \E far, near \in Children(k) : Halves(k, far, near)
    /\ VisitedOnce
    /\ AfterDependencies

\* A cache-oblivious call that bisects both ranges and scans several blocks.
C25_Witness ==
  /\ pc = "done"
  /\ ctx.M >= 4
  /\ ctx.N >= 3
  /\ \E k \in 1..Len(trace.calls) :
       trace.calls[k].kind = "columns" /\ Len(trace.calls[k].stack) >= 1
  /\ \E k \in 1..Len(trace.calls) :
       trace.calls[k].kind = "rows" /\ Len(trace.calls[k].stack) >= 2
  /\ Len(trace.visits) = Cardinality(ScannedCells)

\* What a block of the cache-oblivious engine expects of the two buffers when
\* it is called, and what it leaves in them when it returns.
BlockPre(o) ==
  /\ \A r \in o.blk.Y_start..o.blk.Y_end : o.Y_in[r] = Phi(ctx, o.blk.Z_end + 1, r)
  /\ o.blk.Y_end < ctx.N =>
       /\ \A col \in o.blk.Z_start..o.blk.Z_end :
            o.Z_in[col] = Phi(ctx, col, o.blk.Y_end + 1)
       /\ o.Z_in[o.blk.Z_end + 1] = Phi(ctx, o.blk.Z_end + 1, o.blk.Y_end + 1)

BlockPost(o) ==
  /\ \A r \in o.blk.Y_start..o.blk.Y_end : o.Y_out[r] = Phi(ctx, o.blk.Z_start, r)
  /\ \A col \in o.blk.Z_start..o.blk.Z_end : o.Z_out[col] = Phi(ctx, col, o.blk.Y_start)
  /\ o.Z_out[o.blk.Z_end + 1] = Phi(ctx, o.blk.Z_end + 1, o.blk.Y_start)

\* C26: a call of CalculateBlock_CO that finds Y_col[r] = phi(X_end+1, r) on
\* its rows and, when Y_end < N, Z_row[c] = phi(c, Y_end+1) on its columns and
\* Z_row[X_end+1] = phi(X_end+1, Y_end+1), returns with Y_col[r] =
\* phi(X_start, r), Z_row[c] = phi(c, Y_start) and Z_row[X_end+1] =
\* phi(X_end+1, Y_start), whether it scans or splits.
C26_BlockContract ==
  pc = "done" =>
    \A k \in 1..Len(trace.blocks) :
      BlockPre(trace.blocks[k]) => BlockPost(trace.blocks[k])

\* A run in which a scanned block, a block split by columns and a block split
\* by rows below the last row meet what they expect.
C26_Witness ==
  /\ pc = "done"
  /\ \E k \in 1..Len(trace.blocks) :
       /\ trace.blocks[k].kind = "scan"
       /\ trace.blocks[k].blk.Y_end < ctx.N
       /\ trace.blocks[k].blk.Z_start < trace.blocks[k].blk.Z_end
       /\ trace.blocks[k].blk.Z_end < ctx.M - 1
       /\ BlockPre(trace.blocks[k])
  /\ \E k \in 1..Len(trace.blocks) :
       trace.blocks[k].kind = "columns" /\ BlockPre(trace.blocks[k])
  /\ \E k \in 1..Len(trace.blocks) :
       /\ trace.blocks[k].kind = "rows"
       /\ trace.blocks[k].blk.Y_end < ctx.N
       /\ BlockPre(trace.blocks[k])

\* The least k with 2^k >= n.
RECURSIVE CeilLog2(_)
CeilLog2(n) == IF n <= 1 THEN 0 ELSE 1 + CeilLog2((n + 1) \div 2)

DepthBound ==
  1 + CeilLog2(IF ctx.M > 1 THEN ctx.M ELSE 1) + CeilLog2(ctx.N + 1)

\* Every call made by a call of CalculateBlock_CO is on a column range or a
\* row range strictly shorter than its own, the other range being the same.
Shrinks ==
  \A k \in 1..Len(trace.calls) :
    \A j \in Children(k) :
      \/ /\ ColRange(trace.calls[j].blk) < ColRange(trace.calls[k].blk)
         /\ RowRange(trace.calls[j].blk) = RowRange(trace.calls[k].blk)
      \/ /\ RowRange(trace.calls[j].blk) < RowRange(trace.calls[k].blk)
         /\ ColRange(trace.calls[j].blk) = ColRange(trace.calls[k].blk)

\* C27: EditDistance_NW_Iter_CO terminates: every recursive call of
\* CalculateBlock_CO receives a column or row range strictly shorter than its
\* parent's, a call whose ranges are at or below the threshold makes no call,
\* every call that is entered returns, and the nesting depth of the calls
\* never exceeds 1 + ceil(log2(max(M,1))) + ceil(log2(N+1)).
C27_Termination ==
  pc = "done" =>
    /\ Shrinks
    /\ \A k \in 1..Len(trace.calls) :
         (ColRange(trace.calls[k].blk) <= param /\ RowRange(trace.calls[k].blk) <= param)
           => Children(k) = {}
    /\ Len(trace.blocks) = Len(trace.calls)
    /\ \A k \in 1..Len(trace.calls) :
         \E j \in 1..Len(trace.blocks) :
           trace.blocks[j].blk = trace.calls[k].blk
    /\ \A k \in 1..Len(trace.calls) :
         Len(trace.calls[k].stack) + 1 <= DepthBound

\* A run with threshold 0 whose calls nest as deep as the bound allows.
C27_Witness ==
  /\ pc = "done"
  /\ param = 0
  /\ ctx.M >= 4
  /\ \E k \in 1..Len(trace.calls) : Len(trace.calls[k].stack) + 1 = DepthBound
  /\ DepthBound >= 6

\* The indices at which the call that has just returned accessed buffer name.
Indices(name) == {a[2] : a \in {e \in trace.acc : e[1] = name}}

\* C28: during an engine call the primary sequence is read only at indices
\* 0..M-1 and the secondary one only at 0..N-1 (never at index M of X or N of
\* Y), and the sequences are not written.
C28_SequenceReads ==
  pc # "Rec" =>
    /\ Indices("X") \subseteq 0..(ctx.M - 1)
    /\ Indices("Y") \subseteq 0..(ctx.N - 1)
    /\ {ctx.X, ctx.Y} = {A, B}

\* C29: every access of the blocked and of the cache-oblivious engine stays
\* inside the buffers: Y_col at indices 0..N, the Z_row of the blocked engine
\* at 0..Z_row_length with Z_row_length = min(Z, M), the Z_row of the
\* cache-oblivious engine at 0..M.
C29_BufferBounds ==
  /\ pc = "CO" =>
       /\ Indices("Y_col") \subseteq 0..ctx.N
       /\ Indices("Z_row") \subseteq 0..(IF param > ctx.M THEN ctx.M ELSE param)
  /\ pc = "done" =>
       /\ Indices("Y_col") \subseteq 0..ctx.N
       /\ Indices("Z_row") \subseteq 0..ctx.M

\* A blocked call with partial bands that reaches both ends of Z_row and of
\* Y_col.
C29_Witness ==
  /\ pc = "CO"
  /\ param < ctx.M
  /\ ctx.M % param # 0
  /\ ctx.N >= 3
  /\ {0, param} \subseteq Indices("Z_row")
  /\ {0, ctx.N} \subseteq Indices("Y_col")

\* C30: in EditDistance_NW_Iter and EditDistance_NW_Iter_CA the distance
\* Y_col[0] is read while Y_col is still allocated, and no working buffer is
\* read or written after it has been freed.
C30_NoUseAfterFree ==
  heap.engine \in {"Iter", "Iter_part_000", "Iter_copy2", "CA", "CA_copy2"} =>
    heap.freedUsed = {}

====
